---------------------------- MODULE Spec2Model ----------------------------
(***************************************************************************)
(* A model of the two utility modules of the repository:                   *)
(*   src/crypto_utils.py             CryptoUtils, DeFiCalculator,          *)
(*                                   TechnicalAnalysis                     *)
(*   src/BaseEcosystemIntegration.py BaseEcosystemIntegration               *)
(*                                                                         *)
(* The functions are called one at a time (the code is synchronous and     *)
(* single-threaded).  A call is one action, except generate_merkle_root,   *)
(* whose while loop is stepped pass by pass.  After a call has returned    *)
(* (or raised) the same call can be made a second time on the same         *)
(* arguments (ReCall), with the first outcome kept in prev.                *)
(*                                                                         *)
(* Values.                                                                 *)
(*  - A string is a sequence of chunks [tag, pre].  A literal character c  *)
(*    is the chunk [tag |-> c, pre |-> <<>>].  A hex digest is the single  *)
(*    chunk [tag |-> algorithm, pre |-> hashed string]: the hash is        *)
(*    collision-free, and since every digest of one algorithm has the same *)
(*    length, a concatenation of digests splits in one way only.           *)
(*  - An outcome is [kind, val, exc]: kind "ok" with the returned value,   *)
(*    or kind "raise" with the exception's name.                           *)
(*  - Exact numbers are rationals <<n, d>> in lowest terms with d > 0.     *)
(*  - round(x, k) results are integers counting units of 10^-k.            *)
(***************************************************************************)
EXTENDS Integers, Sequences, FiniteSets, TLC

\* Bounds of the model.
MaxTx == 4
MaxLen == 3
MaxPrice == 2
MaxPeriod == 3
MaxWindow == 1
MantBits == 4

VARIABLES op, args, env, pc, transactions, hashes, result, run, prev

vars == <<op, args, env, pc, transactions, hashes, result, run, prev>>

---------------------------------------------------------------------------
\* Outcomes of a call.

Ok(v) == [kind |-> "ok", val |-> v, exc |-> "none"]

Raise(e) == [kind |-> "raise", val |-> <<>>, exc |-> e]

NoOutcome == [kind |-> "none", val |-> <<>>, exc |-> "none"]

\* Two outcomes agree: both returned the same value, or both raised the same
\* exception.
SameOutcome(a, b) ==
    /\ a.kind = b.kind
    /\ a.exc = b.exc
    /\ (a.kind = "ok" => a.val = b.val)

---------------------------------------------------------------------------
\* Strings.

Chr(c) == [tag |-> c, pre |-> <<>>]

Str(s) == [i \in 1..Len(s) |-> Chr(s[i])]

EmptyString == <<>>

\* The transaction strings the model draws from: "", "a", "b".
TxStrings == {EmptyString, Str(<<"a">>), Str(<<"b">>)}

RECURSIVE SeqsUpTo(_, _)
SeqsUpTo(S, n) ==
    IF n = 0 THEN {<<>>}
    ELSE LET shorter == SeqsUpTo(S, n - 1)
         IN shorter \cup {Append(s, x) : s \in {t \in shorter : Len(t) = n - 1}, x \in S}

TxLists == SeqsUpTo(TxStrings, MaxTx)

---------------------------------------------------------------------------
\* CryptoUtils.calculate_hash: the hex digest of data under the algorithm; an
\* unsupported algorithm raises ValueError.
calculate_hash(data, algorithm) ==
    IF algorithm = "sha256" THEN Ok(<<[tag |-> "sha256", pre |-> data]>>)
    ELSE IF algorithm = "sha1" THEN Ok(<<[tag |-> "sha1", pre |-> data]>>)
    ELSE IF algorithm = "md5" THEN Ok(<<[tag |-> "md5", pre |-> data]>>)
    ELSE Raise("ValueError")

\* self.calculate_hash(x) with the default algorithm, as generate_merkle_root
\* calls it.
Sha256Hex(data) == calculate_hash(data, "sha256").val

\* A mutant of LeafHashes: the list the leaf hashes go to is kept between
\* calls and not emptied, so a call starts from what the last one left.
LeafHashesKept(txs) == hashes \o [i \in 1..Len(txs) |-> Sha256Hex(txs[i])]

\* hashes = [self.calculate_hash(tx) for tx in transactions]: a new list.
LeafHashes(txs) == [i \in 1..Len(txs) |-> Sha256Hex(txs[i])]

\* A mutant of NextLevelFrom: the unpaired last hash is promoted to the next
\* level as it is, not hashed with itself.
RECURSIVE NextLevelPromoteOdd(_, _, _)
NextLevelPromoteOdd(hs, i, next_level) ==
    IF i >= Len(hs) THEN next_level
    ELSE IF i + 1 < Len(hs)
    THEN NextLevelPromoteOdd(hs, i + 2,
             Append(next_level, Sha256Hex(hs[i + 1] \o hs[i + 2])))
    ELSE Append(next_level, hs[i + 1])

\* A mutant of NextLevelFrom: the unpaired last hash is dropped
\* (range(0, len(hashes) - 1, 2)).
RECURSIVE NextLevelDropOdd(_, _, _)
NextLevelDropOdd(hs, i, next_level) ==
    IF i + 1 >= Len(hs) THEN next_level
    ELSE NextLevelDropOdd(hs, i + 2,
             Append(next_level, Sha256Hex(hs[i + 1] \o hs[i + 2])))

\* A mutant of NextLevelFrom: the right child is never read
\* (hashes[i] + hashes[i] in both branches).
RECURSIVE NextLevelLeftOnly(_, _, _)
NextLevelLeftOnly(hs, i, next_level) ==
    IF i >= Len(hs) THEN next_level
    ELSE NextLevelLeftOnly(hs, i + 2,
             Append(next_level, Sha256Hex(hs[i + 1] \o hs[i + 1])))

\* The for loop of one pass, from index i (0-based, as in the code) on.
RECURSIVE NextLevelFrom(_, _, _)
NextLevelFrom(hs, i, next_level) ==
    IF i >= Len(hs) THEN next_level
    ELSE LET combined == IF i + 1 < Len(hs)
                         THEN hs[i + 1] \o hs[i + 2]
                         ELSE hs[i + 1] \o hs[i + 1]
         IN NextLevelFrom(hs, i + 2, Append(next_level, Sha256Hex(combined)))

\* One pass of the while loop: next_level = []; for ...; hashes = next_level.
NextLevel(hs) == NextLevelFrom(hs, 0, <<>>)

RECURSIVE MerkleReduce(_)
MerkleReduce(hs) == IF Len(hs) > 1 THEN MerkleReduce(NextLevel(hs)) ELSE hs[1]

\* CryptoUtils.generate_merkle_root as a function of its argument.
generate_merkle_root(txs) ==
    IF txs = <<>> THEN Ok(EmptyString) ELSE Ok(MerkleReduce(LeafHashes(txs)))

---------------------------------------------------------------------------
\* Numbers.

Abs(x) == IF x < 0 THEN 0 - x ELSE x

RECURSIVE GCD(_, _)
GCD(a, b) == IF b = 0 THEN a ELSE GCD(b, a % b)

\* The rational n/d (d # 0) in lowest terms with a positive denominator.
Rat(n, d) ==
    LET g == GCD(Abs(n), Abs(d))
        sgn == IF d < 0 THEN 0 - 1 ELSE 1
    IN <<(sgn * n) \div g, Abs(d) \div g>>

RInt(n) == <<n, 1>>

RAdd(x, y) == Rat(x[1] * y[2] + y[1] * x[2], x[2] * y[2])

RSub(x, y) == Rat(x[1] * y[2] - y[1] * x[2], x[2] * y[2])

RMul(x, y) == Rat(x[1] * y[1], x[2] * y[2])

\* x / y for y # 0.
RDiv(x, y) == Rat(x[1] * y[2], x[2] * y[1])

RLess(x, y) == x[1] * y[2] < y[1] * x[2]

RLeq(x, y) == x[1] * y[2] <= y[1] * x[2]

RECURSIVE Pow10(_)
Pow10(k) == IF k = 0 THEN 1 ELSE 10 * Pow10(k - 1)

\* Long division: k more decimal digits of r/d (0 <= r < d) appended to acc;
\* the result is <<digits so far, remainder>>.
RECURSIVE LongDiv(_, _, _, _)
LongDiv(r, d, k, acc) ==
    IF k = 0 THEN <<acc, r>>
    ELSE LongDiv((r * 10) % d, d, k - 1, acc * 10 + ((r * 10) \div d))

\* Python's round(x, k) of the number x = <<n, d>>: the nearest multiple of
\* 10^-k, a tie going to the even one; the result counts units of 10^-k.
Round(x, k) ==
    LET n == Abs(x[1])
        qr == LongDiv(n % x[2], x[2], k, n \div x[2])
        up == 2 * qr[2] > x[2] \/ (2 * qr[2] = x[2] /\ qr[1] % 2 = 1)
        units == IF up THEN qr[1] + 1 ELSE qr[1]
    IN IF x[1] < 0 THEN 0 - units ELSE units

\* The exact value of a rounded result of k decimals.
Units(u, k) == Rat(u, Pow10(k))

RECURSIVE Sum(_)
Sum(s) == IF s = <<>> THEN 0 ELSE s[1] + Sum(Tail(s))

\* Python's s[lo:hi] (indices 0-based; a negative index counts from the end;
\* both are clamped to the list).
PyClamp(i, n) ==
    IF i < 0 THEN (IF i + n < 0 THEN 0 ELSE i + n)
    ELSE (IF i > n THEN n ELSE i)

PySlice(s, lo, hi) ==
    LET a == PyClamp(lo, Len(s))
        b == PyClamp(hi, Len(s))
    IN IF a >= b THEN <<>> ELSE SubSeq(s, a + 1, b)

\* Python's s[i] is defined for -len(s) <= i < len(s) and raises IndexError
\* otherwise.
PyIndexOk(s, i) == 0 - Len(s) <= i /\ i < Len(s)

PyIndex(s, i) == IF i < 0 THEN s[i + Len(s) + 1] ELSE s[i + 1]

\* list(set(xs)): every value once, in an order the language leaves open; the
\* model lists them in increasing order.
RECURSIVE SortedList(_)
SortedList(S) ==
    IF S = {} THEN <<>>
    ELSE LET m == CHOOSE x \in S : \A y \in S : x <= y
         IN <<m>> \o SortedList(S \ {m})

ListOfSet(xs) == SortedList({xs[i] : i \in 1..Len(xs)})

---------------------------------------------------------------------------
\* TechnicalAnalysis.

PriceSeqs == SeqsUpTo(0..MaxPrice, MaxLen)

Periods == (0 - 1)..MaxPeriod

Windows == (0 - 1)..MaxWindow

\* A mutant of SmaLoop: the window is one observation short
\* (prices[i - period + 2:i + 1]).
RECURSIVE SmaLoopShortWindow(_, _, _, _)
SmaLoopShortWindow(prices, period, i, sma_values) ==
    IF i >= Len(prices) THEN Ok(sma_values)
    ELSE IF period = 0 THEN Raise("ZeroDivisionError")
    ELSE LET avg == Rat(Sum(PySlice(prices, i - period + 2, i + 1)), period)
         IN SmaLoopShortWindow(prices, period, i + 1,
                Append(sma_values, Round(avg, 8)))

\* for i in range(period - 1, len(prices)): the loop of calculate_sma from i on.
RECURSIVE SmaLoop(_, _, _, _)
SmaLoop(prices, period, i, sma_values) ==
    IF i >= Len(prices) THEN Ok(sma_values)
    ELSE IF period = 0 THEN Raise("ZeroDivisionError")
    ELSE LET avg == Rat(Sum(PySlice(prices, i - period + 1, i + 1)), period)
         IN SmaLoop(prices, period, i + 1, Append(sma_values, Round(avg, 8)))

calculate_sma(prices, period) ==
    IF Len(prices) < period THEN Ok(<<>>)
    ELSE SmaLoop(prices, period, period - 1, <<>>)

\* The first loop of calculate_rsi: the gains and the losses of each step.
Gains(prices) ==
    IF Len(prices) < 2 THEN <<>>
    ELSE [i \in 1..(Len(prices) - 1) |->
        LET change == prices[i + 1] - prices[i]
        IN IF change > 0 THEN change ELSE 0]

\* A mutant of Losses: the branches are exchanged, a rise counting as a loss.
LossesOfRises(prices) ==
    IF Len(prices) < 2 THEN <<>>
    ELSE [i \in 1..(Len(prices) - 1) |->
        LET change == prices[i + 1] - prices[i]
        IN IF change > 0 THEN change ELSE 0]

Losses(prices) ==
    IF Len(prices) < 2 THEN <<>>
    ELSE [i \in 1..(Len(prices) - 1) |->
        LET change == prices[i + 1] - prices[i]
        IN IF change > 0 THEN 0 ELSE Abs(change)]

\* for i in range(period - 1, len(gains)): the second loop of calculate_rsi.
RECURSIVE RsiLoop(_, _, _, _, _)
RsiLoop(gains, losses, period, i, rsi_values) ==
    IF i >= Len(gains) THEN Ok(rsi_values)
    ELSE IF period = 0 THEN Raise("ZeroDivisionError")
    ELSE LET avg_gain == Rat(Sum(PySlice(gains, i - period + 1, i + 1)), period)
             avg_loss == Rat(Sum(PySlice(losses, i - period + 1, i + 1)), period)
             rs == RDiv(avg_gain, avg_loss)
             rsi == IF avg_loss[1] = 0 THEN RInt(100)
                    ELSE RSub(RInt(100), RDiv(RInt(100), RAdd(RInt(1), rs)))
         IN RsiLoop(gains, losses, period, i + 1, Append(rsi_values, Round(rsi, 2)))

calculate_rsi(prices, period) ==
    IF Len(prices) < period + 1 THEN Ok(<<>>)
    ELSE RsiLoop(Gains(prices), Losses(prices), period, period - 1, <<>>)

\* The offsets j of range(-window, window + 1) with j != 0.
Offsets(window) == {j \in (0 - window)..window : j # 0}

\* A mutant of SupportResistanceLoop: the comparisons are strict.
RECURSIVE SupportResistanceStrict(_, _, _, _, _)
SupportResistanceStrict(prices, window, i, support_levels, resistance_levels) ==
    IF i >= Len(prices) - window
    THEN Ok([support |-> ListOfSet(support_levels),
             resistance |-> ListOfSet(resistance_levels)])
    ELSE IF \E k \in {i} \cup {i + j : j \in Offsets(window)} : ~PyIndexOk(prices, k)
    THEN Raise("IndexError")
    ELSE LET is_support ==
                 \A j \in Offsets(window) : PyIndex(prices, i) < PyIndex(prices, i + j)
             is_resistance ==
                 \A j \in Offsets(window) : PyIndex(prices, i) > PyIndex(prices, i + j)
         IN SupportResistanceStrict(prices, window, i + 1,
                IF is_support THEN Append(support_levels, PyIndex(prices, i))
                ELSE support_levels,
                IF is_resistance THEN Append(resistance_levels, PyIndex(prices, i))
                ELSE resistance_levels)

\* for i in range(window, len(prices) - window): the loop of
\* detect_support_resistance from i on, and the return.  With offsets to
\* compare (window >= 1) every index read lies in the list; without any
\* (window <= 0) both tests hold and prices[i] is read by the appends.
RECURSIVE SupportResistanceLoop(_, _, _, _, _)
SupportResistanceLoop(prices, window, i, support_levels, resistance_levels) ==
    IF i >= Len(prices) - window
    THEN Ok([support |-> ListOfSet(support_levels),
             resistance |-> ListOfSet(resistance_levels)])
    ELSE IF \E k \in {i} \cup {i + j : j \in Offsets(window)} : ~PyIndexOk(prices, k)
    THEN Raise("IndexError")
    ELSE LET is_support ==
                 \A j \in Offsets(window) : PyIndex(prices, i) <= PyIndex(prices, i + j)
             is_resistance ==
                 \A j \in Offsets(window) : PyIndex(prices, i) >= PyIndex(prices, i + j)
         IN SupportResistanceLoop(prices, window, i + 1,
                IF is_support THEN Append(support_levels, PyIndex(prices, i))
                ELSE support_levels,
                IF is_resistance THEN Append(resistance_levels, PyIndex(prices, i))
                ELSE resistance_levels)

detect_support_resistance(prices, window) ==
    IF Len(prices) < window * 2 + 1 THEN Ok([support |-> <<>>, resistance |-> <<>>])
    ELSE SupportResistanceLoop(prices, window, window, <<>>, <<>>)

---------------------------------------------------------------------------
\* Floating point.  A float has a significand of MantBits bits (53 in the
\* code's doubles, fewer here) and an unbounded exponent; every arithmetic
\* operation returns the float nearest to the exact result, a tie going to the
\* even significand.

RECURSIVE Pow2(_)
Pow2(k) == IF k = 0 THEN 1 ELSE 2 * Pow2(k - 1)

\* n/d > 0 scaled by 2^-e so that 2^(MantBits-1) <= n/d < 2^MantBits.
RECURSIVE FlScale(_, _, _)
FlScale(n, d, e) ==
    IF n >= d * Pow2(MantBits) THEN FlScale(n, 2 * d, e + 1)
    ELSE IF n < d * Pow2(MantBits - 1) THEN FlScale(2 * n, d, e - 1)
    ELSE <<n, d, e>>

\* The integer nearest to n/d (n >= 0, d > 0), a tie going to the even one.
NearestEven(n, d) ==
    LET q == n \div d
        r == n % d
    IN IF 2 * r > d \/ (2 * r = d /\ q % 2 = 1) THEN q + 1 ELSE q

\* significand * 2^e as a rational.
Scaled(m, e) == IF e >= 0 THEN Rat(m * Pow2(e), 1) ELSE Rat(m, Pow2(0 - e))

\* The float nearest to the rational x.
Fl(x) ==
    IF x[1] = 0 THEN RInt(0)
    ELSE LET t == FlScale(Abs(x[1]), x[2], 0)
             v == Scaled(NearestEven(t[1], t[2]), t[3])
         IN IF x[1] < 0 THEN <<0 - v[1], v[2]>> ELSE v

IsFloat(x) == Fl(x) = x

FAdd(x, y) == Fl(RAdd(x, y))

FSub(x, y) == Fl(RSub(x, y))

FMul(x, y) == Fl(RMul(x, y))

FDiv(x, y) == Fl(RDiv(x, y))

\* The next float above the float x > 0.
FlSucc(x) == RAdd(x, Scaled(1, FlScale(x[1], x[2], 0)[3]))

---------------------------------------------------------------------------
\* BaseEcosystemIntegration.calculate_swap_output.

AmountsIn == {RInt(0 - 2), RInt(0), RInt(1), RInt(3), RInt(44)}

ReservesIn == {RInt(0 - 1), RInt(0), RInt(1), RInt(2)}

ReservesOut == {RInt(0 - 1), RInt(0), RInt(1), RInt(7)}

FeeRates == {RInt(0), Rat(1, 4), Rat(1, 2)}

\* A mutant of calculate_swap_output: the guard tests the input reserve only.
calculate_swap_output_one_guard(amount_in, reserve_in, reserve_out, fee_rate) ==
    IF RLeq(reserve_in, RInt(0)) THEN Ok(RInt(0))
    ELSE LET amount_in_with_fee == FMul(amount_in, FSub(RInt(1), fee_rate))
             numerator == FMul(amount_in_with_fee, reserve_out)
             denominator == FAdd(reserve_in, amount_in_with_fee)
         IN IF denominator[1] = 0 THEN Raise("ZeroDivisionError")
            ELSE Ok(FDiv(numerator, denominator))

calculate_swap_output(amount_in, reserve_in, reserve_out, fee_rate) ==
    IF RLeq(reserve_in, RInt(0)) \/ RLeq(reserve_out, RInt(0)) THEN Ok(RInt(0))
    ELSE LET amount_in_with_fee == FMul(amount_in, FSub(RInt(1), fee_rate))
             numerator == FMul(amount_in_with_fee, reserve_out)
             denominator == FAdd(reserve_in, amount_in_with_fee)
         IN IF denominator[1] = 0 THEN Raise("ZeroDivisionError")
            ELSE Ok(FDiv(numerator, denominator))

---------------------------------------------------------------------------
\* DeFiCalculator.calculate_compound_interest, for a whole number of years.

\* x to the power n > 0.
RECURSIVE RPowNat(_, _)
RPowNat(x, n) == IF n = 0 THEN RInt(1) ELSE RMul(x, RPowNat(x, n - 1))

\* x ** n for an integer n; x is not 0 when n < 0.
RPow(x, n) == IF n >= 0 THEN RPowNat(x, n) ELSE RDiv(RInt(1), RPowNat(x, 0 - n))

Principals == {RInt(0 - 1), RInt(0), RInt(1), RInt(2)}

Rates == {RInt(0), Rat(1, 2), RInt(1)}

CompoundsPerYear == {0 - 2, 0 - 1, 0, 1, 2}

Years == {0, 1}

calculate_compound_interest(principal, rate, compounds_per_year, years) ==
    IF RLeq(principal, RInt(0)) \/ RLeq(rate, RInt(0)) THEN Ok(principal)
    ELSE IF compounds_per_year = 0 THEN Raise("ZeroDivisionError")
    ELSE LET base == RAdd(RInt(1), RDiv(rate, RInt(compounds_per_year)))
             exponent == compounds_per_year * years
         IN IF base[1] = 0 /\ exponent < 0 THEN Raise("ZeroDivisionError")
            ELSE Ok(Units(Round(RMul(principal, RPow(base, exponent)), 8), 8))

---------------------------------------------------------------------------
\* CryptoUtils.generate_wallet_seed.

HexDigits == <<"0", "1", "2", "3", "4", "5", "6", "7",
               "8", "9", "a", "b", "c", "d", "e", "f">>

\* hex(n)[2:] for n >= 0: the hexadecimal digits of n, without the 0x.
RECURSIVE ToHex(_)
ToHex(n) ==
    IF n < 16 THEN <<HexDigits[n + 1]>>
    ELSE Append(ToHex(n \div 16), HexDigits[(n % 16) + 1])

\* s.zfill(width): zeros on the left up to the width; a longer s is kept.
RECURSIVE ZFill(_, _)
ZFill(s, width) == IF Len(s) >= width THEN s ELSE ZFill(<<"0">> \o s, width)

EntropyBits == {4, 8}

\* The values secrets.randbits(entropy_bits) is drawn from in the model:
\* the ends of its range 0 .. 2^entropy_bits - 1 and two values between.
Entropies(entropy_bits) == {0, 1, 10, Pow2(entropy_bits) - 1}

generate_wallet_seed(entropy_bits, entropy) ==
    Ok(Str(ZFill(ToHex(entropy), entropy_bits \div 4)))

---------------------------------------------------------------------------
\* JSON values, as response.json() returns them.  A value is a record
\* [t, n, s, d]: t its type, n the number, s the string, d the dictionary (a
\* function from key strings to values).  JSON null is Python's None.

JNull == [t |-> "null", n |-> 0, s |-> EmptyString, d |-> <<>>]

JNum(n) == [t |-> "num", n |-> n, s |-> EmptyString, d |-> <<>>]

JStr(s) == [t |-> "str", n |-> 0, s |-> s, d |-> <<>>]

JList == [t |-> "list", n |-> 0, s |-> EmptyString, d |-> <<>>]

JDict(d) == [t |-> "dict", n |-> 0, s |-> EmptyString, d |-> d]

\* A body that is no JSON at all: response.json() raises.
NotJson == [t |-> "notjson", n |-> 0, s |-> EmptyString, d |-> <<>>]

None == JNull

\* The dictionary with the one key k.
One(k, v) == [x \in {k} |-> v]

\* An HTTP exchange: the request raised (a timeout, a refused connection), or
\* a response came with a status and a body.
RequestFailed == [exc |-> TRUE, status |-> 0, body |-> NotJson]

Response(status, body) == [exc |-> FALSE, status |-> status, body |-> body]

\* str.lower() on the characters of the model's addresses.
LowerChar(c) ==
    IF c = "A" THEN "a" ELSE IF c = "B" THEN "b" ELSE IF c = "C" THEN "c"
    ELSE IF c = "D" THEN "d" ELSE IF c = "E" THEN "e" ELSE IF c = "F" THEN "f"
    ELSE IF c = "X" THEN "x" ELSE c

Lower(s) == [i \in 1..Len(s) |-> Chr(LowerChar(s[i].tag))]

TokenAddresses == {Str(<<"0", "x", "A">>), Str(<<"0", "x", "a">>)}

UsdKey == Str(<<"u", "s", "d">>)

TokenPriceBodies ==
    {NotJson, JList, JNull, JDict(<<>>),
     JDict(One(Str(<<"0", "x", "a">>), JNull)),
     JDict(One(Str(<<"0", "x", "a">>), JDict(<<>>))),
     JDict(One(Str(<<"0", "x", "a">>), JDict(One(UsdKey, JNum(2))))),
     JDict(One(Str(<<"0", "x", "a">>), JDict(One(UsdKey, JNull)))),
     JDict(One(Str(<<"0", "x", "a">>), JDict(One(UsdKey, JStr(Str(<<"n", "a">>)))))),
     JDict(One(Str(<<"0", "x", "A">>), JDict(One(UsdKey, JNum(3)))))}

TokenPriceResponses ==
    {RequestFailed, Response(404, NotJson), Response(500, JDict(<<>>))}
        \cup {Response(200, b) : b \in TokenPriceBodies}

\* The try block of get_token_price: the value it returns, the exception it
\* raises, or kind "none" when it ends without returning (a status other
\* than 200).
TokenPriceTry(token_address, response) ==
    IF response.exc THEN Raise("RequestException")
    ELSE IF response.status # 200 THEN NoOutcome
    ELSE IF response.body.t = "notjson" THEN Raise("ValueError")
    ELSE LET data == response.body
             key == Lower(token_address)
         IN IF data.t # "dict" THEN Raise("AttributeError")
            ELSE LET entry == IF key \in DOMAIN data.d THEN data.d[key]
                              ELSE JDict(<<>>)
                 IN IF entry.t # "dict" THEN Raise("AttributeError")
                    ELSE IF UsdKey \in DOMAIN entry.d THEN Ok(entry.d[UsdKey])
                    ELSE Ok(None)

\* BaseEcosystemIntegration.get_token_price: an exception of the try block is
\* caught and printed, and None is returned after it.
get_token_price(token_address, response) ==
    LET t == TokenPriceTry(token_address, response)
    IN IF t.kind = "ok" THEN t ELSE Ok(None)

\* int(s, 16) for a string s: an optional 0x or 0X, then one hexadecimal
\* digit or more.  The value, or -1 for a string int() rejects (ValueError).
HexValue(c) ==
    LET l == LowerChar(c)
        hits == {i \in 1..16 : HexDigits[i] = l}
    IN IF hits = {} THEN 0 - 1 ELSE (CHOOSE i \in hits : TRUE) - 1

RECURSIVE HexDigitsValue(_, _)
HexDigitsValue(s, acc) ==
    IF s = <<>> THEN acc
    ELSE IF HexValue(s[1].tag) < 0 THEN 0 - 1
    ELSE HexDigitsValue(Tail(s), acc * 16 + HexValue(s[1].tag))

ParseHex(s) ==
    LET prefixed == Len(s) >= 2 /\ s[1].tag = "0" /\ LowerChar(s[2].tag) = "x"
        digits == IF prefixed THEN SubSeq(s, 3, Len(s)) ELSE s
    IN IF digits = <<>> THEN 0 - 1 ELSE HexDigitsValue(digits, 0)

\* A decimal number m * 10^e.
Dec(m, e) == [m |-> m, e |-> e]

GasBodies ==
    {NotJson, JList, JNull, JDict(<<>>),
     JDict(One(Str(<<"e", "r", "r", "o", "r">>), JStr(Str(<<"x">>)))),
     JDict(One(Str(<<"r", "e", "s", "u", "l", "t">>), JNull)),
     JDict(One(Str(<<"r", "e", "s", "u", "l", "t">>), JNum(7))),
     JDict(One(Str(<<"r", "e", "s", "u", "l", "t">>), JStr(Str(<<"0", "x">>)))),
     JDict(One(Str(<<"r", "e", "s", "u", "l", "t">>), JStr(Str(<<"0", "x", "g">>)))),
     JDict(One(Str(<<"r", "e", "s", "u", "l", "t">>), JStr(Str(<<"0", "x", "1", "F">>)))),
     JDict(One(Str(<<"r", "e", "s", "u", "l", "t">>), JStr(Str(<<"a">>))))}

GasResponses ==
    {RequestFailed, Response(429, NotJson), Response(503, JDict(<<>>))}
        \cup {Response(200, b) : b \in GasBodies}

\* The readings of time.time() in the model, in seconds.
Clock == {Rat(3, 2), RInt(2)}

ResultKey == Str(<<"r", "e", "s", "u", "l", "t">>)

GasError == [error |-> "Unable to fetch gas prices"]

\* The try block of monitor_gas_prices.
GasPricesTry(response, now) ==
    IF response.exc THEN Raise("RequestException")
    ELSE IF response.status # 200 THEN NoOutcome
    ELSE IF response.body.t = "notjson" THEN Raise("ValueError")
    ELSE LET res == response.body
         IN IF res.t # "dict" THEN Raise("TypeError")
            ELSE IF ResultKey \notin DOMAIN res.d THEN Raise("KeyError")
            ELSE IF res.d[ResultKey].t # "str" THEN Raise("TypeError")
            ELSE LET gas_price_wei == ParseHex(res.d[ResultKey].s)
                 IN IF gas_price_wei < 0 THEN Raise("ValueError")
                    ELSE Ok([gas_price_gwei |-> Dec(gas_price_wei, 0 - 9),
                             fast |-> Dec(gas_price_wei * 12, 0 - 10),
                             standard |-> Dec(gas_price_wei, 0 - 9),
                             safe |-> Dec(gas_price_wei * 8, 0 - 10),
                             timestamp |-> now[1] \div now[2]])

\* A mutant of monitor_gas_prices: no except clause.
monitor_gas_prices_uncaught(response, now) ==
    LET t == GasPricesTry(response, now)
    IN IF t.kind = "none" THEN Ok(GasError) ELSE t

\* BaseEcosystemIntegration.monitor_gas_prices: an exception of the try block
\* is caught and printed, and the error mapping is returned after it.
monitor_gas_prices(response, now) ==
    LET t == GasPricesTry(response, now)
    IN IF t.kind = "ok" THEN t ELSE Ok(GasError)

---------------------------------------------------------------------------
\* BaseEcosystemIntegration.find_optimal_swap_route.

\* The token symbols of the model.
Tokens == {"ETH", "WETH", "USDC"}

\* _get_direct_pools: the one pool of the placeholder, whatever the tokens.
\* The reserves are integers, the fee rate is the float nearest to 0.003.
_get_direct_pools(token_in, token_out) ==
    <<[address |-> "0x...", reserve_in |-> 1000000, reserve_out |-> 2000000,
       fee_rate |-> Fl(Rat(3, 1000))]>>

_get_multi_hop_routes(token_in, token_out) ==
    IF token_in # "WETH" /\ token_out # "WETH"
    THEN <<<<token_in, "WETH", token_out>>>>
    ELSE IF token_in # "USDC" /\ token_out # "USDC"
    THEN <<<<token_in, "USDC", token_out>>>>
    ELSE <<>>

\* _calculate_price_impact; the integers (the reserve, the 100) become
\* floats in the arithmetic.
_calculate_price_impact(amount_in, reserve_in) ==
    IF reserve_in <= 0 THEN RInt(0)
    ELSE FMul(FDiv(amount_in, Fl(RInt(reserve_in))), Fl(RInt(100)))

\* The amounts of the model: negative, none, small, large, and the one that
\* cancels the input reserve of the pool.
RouteAmounts ==
    {RInt(0 - 2), RInt(0), RInt(1), RInt(44),
     RSub(RInt(0), Fl(RInt(1000000)))}

\* for pool in direct_pools: the loop of find_optimal_swap_route from the
\* k-th pool on, and the return.  The integer reserves become floats in the
\* arithmetic of calculate_swap_output; an exception of it leaves the loop.
RECURSIVE RouteLoop(_, _, _, _)
RouteLoop(direct_pools, k, amount_in, best_route) ==
    IF k > Len(direct_pools) THEN Ok(best_route)
    ELSE LET pool == direct_pools[k]
             output == calculate_swap_output(amount_in,
                           Fl(RInt(pool.reserve_in)),
                           Fl(RInt(pool.reserve_out)), pool.fee_rate)
         IN IF output.kind = "raise" THEN output
            ELSE IF RLess(best_route.expected_output, output.val)
            THEN RouteLoop(direct_pools, k + 1, amount_in,
                     [route |-> best_route.route,
                      expected_output |-> output.val,
                      price_impact |->
                          _calculate_price_impact(amount_in, pool.reserve_in),
                      gas_estimate |-> best_route.gas_estimate,
                      pool_address |-> pool.address])
            ELSE RouteLoop(direct_pools, k + 1, amount_in, best_route)

find_optimal_swap_route(token_in, token_out, amount_in) ==
    LET direct_pools == _get_direct_pools(token_in, token_out)
        multi_hop_routes == _get_multi_hop_routes(token_in, token_out)
        best_route == [route |-> <<token_in, token_out>>,
                       expected_output |-> RInt(0),
                       price_impact |-> RInt(0),
                       gas_estimate |-> 150000]
    IN RouteLoop(direct_pools, 1, amount_in, best_route)

---------------------------------------------------------------------------
\* The calls.

\* What a call reads besides its arguments: the entropy source, the HTTP
\* exchange and the clock.
NoEnv == [entropy |-> 0, response |-> RequestFailed, now |-> RInt(0)]

Envs(o, a) ==
    IF o = "generate_wallet_seed"
    THEN {[NoEnv EXCEPT !.entropy = e] : e \in Entropies(a.entropy_bits)}
    ELSE IF o = "get_token_price"
    THEN {[NoEnv EXCEPT !.response = r] : r \in TokenPriceResponses}
    ELSE IF o = "monitor_gas_prices"
    THEN {[NoEnv EXCEPT !.response = r, !.now = t] : r \in GasResponses, t \in Clock}
    ELSE {NoEnv}

\* The outcome of the call of o on the arguments a in the environment e.
Eval(o, a, e) ==
    CASE o = "calculate_hash" -> calculate_hash(a.data, a.algorithm)
      [] o = "generate_wallet_seed" -> generate_wallet_seed(a.entropy_bits, e.entropy)
      [] o = "calculate_sma" -> calculate_sma(a.prices, a.period)
      [] o = "calculate_rsi" -> calculate_rsi(a.prices, a.period)
      [] o = "detect_support_resistance" -> detect_support_resistance(a.prices, a.window)
      [] o = "calculate_swap_output" ->
             calculate_swap_output(a.amount_in, a.reserve_in, a.reserve_out, a.fee_rate)
      [] o = "calculate_compound_interest" ->
             calculate_compound_interest(a.principal, a.rate,
                                         a.compounds_per_year, a.years)
      [] o = "find_optimal_swap_route" ->
             find_optimal_swap_route(a.token_in, a.token_out, a.amount_in)
      [] o = "get_token_price" -> get_token_price(a.token_address, e.response)
      [] o = "monitor_gas_prices" -> monitor_gas_prices(e.response, e.now)

\* The call of o on a: generate_merkle_root runs up to its while loop, any
\* other function to its end.
Enter(o, a, e) ==
    /\ op' = o
    /\ args' = a
    /\ env' = e
    /\ IF o = "generate_merkle_root"
       THEN /\ transactions' = a.transactions
            /\ IF a.transactions = <<>>
               THEN /\ hashes' = <<>>
                    /\ result' = Ok(EmptyString)
                    /\ pc' = "done"
               ELSE /\ hashes' = LeafHashes(a.transactions)
                    /\ result' = NoOutcome
                    /\ pc' = "merkle_loop"
       ELSE /\ transactions' = <<>>
            /\ hashes' = <<>>
            /\ result' = Eval(o, a, e)
            /\ pc' = IF result'.kind = "raise" THEN "raised" ELSE "done"

\* A first call, from the idle state.
Call(o, a) ==
    /\ pc = "idle"
    /\ \E e \in Envs(o, a) : Enter(o, a, e)
    /\ run' = 1
    /\ prev' = NoOutcome

Init ==
    /\ op = "none"
    /\ args = <<>>
    /\ env = NoEnv
    /\ pc = "idle"
    /\ transactions = <<>>
    /\ hashes = <<>>
    /\ result = NoOutcome
    /\ run = 0
    /\ prev = NoOutcome

Call_calculate_hash ==
    \E data \in TxStrings, algorithm \in {"sha256", "sha1", "md5", "sha512"} :
        Call("calculate_hash", [data |-> data, algorithm |-> algorithm])

Call_generate_merkle_root ==
    \E txs \in TxLists : Call("generate_merkle_root", [transactions |-> txs])

\* One pass of the while loop of generate_merkle_root.
MerklePass ==
    /\ pc = "merkle_loop"
    /\ Len(hashes) > 1
    /\ hashes' = NextLevel(hashes)
    /\ UNCHANGED <<op, args, env, pc, transactions, result, run, prev>>

\* The loop ends: return hashes[0].
MerkleReturn ==
    /\ pc = "merkle_loop"
    /\ ~(Len(hashes) > 1)
    /\ result' = Ok(hashes[1])
    /\ pc' = "done"
    /\ UNCHANGED <<op, args, env, transactions, hashes, run, prev>>

Call_generate_wallet_seed ==
    \E entropy_bits \in EntropyBits :
        Call("generate_wallet_seed", [entropy_bits |-> entropy_bits])

Call_calculate_sma ==
    \E prices \in PriceSeqs, period \in Periods :
        Call("calculate_sma", [prices |-> prices, period |-> period])

Call_calculate_rsi ==
    \E prices \in PriceSeqs, period \in Periods :
        Call("calculate_rsi", [prices |-> prices, period |-> period])

Call_detect_support_resistance ==
    \E prices \in PriceSeqs, window \in Windows :
        Call("detect_support_resistance", [prices |-> prices, window |-> window])

Call_calculate_swap_output ==
    \E amount_in \in AmountsIn, reserve_in \in ReservesIn,
       reserve_out \in ReservesOut, fee_rate \in FeeRates :
        Call("calculate_swap_output",
             [amount_in |-> amount_in, reserve_in |-> reserve_in,
              reserve_out |-> reserve_out, fee_rate |-> fee_rate])

Call_calculate_compound_interest ==
    \E principal \in Principals, rate \in Rates,
       compounds_per_year \in CompoundsPerYear, years \in Years :
        Call("calculate_compound_interest",
             [principal |-> principal, rate |-> rate,
              compounds_per_year |-> compounds_per_year, years |-> years])

Call_find_optimal_swap_route ==
    \E token_in \in Tokens, token_out \in Tokens, amount_in \in RouteAmounts :
        Call("find_optimal_swap_route",
             [token_in |-> token_in, token_out |-> token_out,
              amount_in |-> amount_in])

Call_get_token_price ==
    \E token_address \in TokenAddresses :
        Call("get_token_price", [token_address |-> token_address])

Call_monitor_gas_prices == Call("monitor_gas_prices", [none |-> 0])

\* The same call once more, on the same arguments, after it returned or
\* raised; the first outcome is kept in prev.
ReCall ==
    /\ pc \in {"done", "raised"}
    /\ run = 1
    /\ \E e \in Envs(op, args) : Enter(op, args, e)
    /\ run' = 2
    /\ prev' = result

\* The caller is done with the outcome.
Reset ==
    /\ pc \in {"done", "raised"}
    /\ op' = "none"
    /\ args' = <<>>
    /\ env' = NoEnv
    /\ pc' = "idle"
    /\ transactions' = <<>>
    /\ hashes' = <<>>
    /\ result' = NoOutcome
    /\ run' = 0
    /\ prev' = NoOutcome

Next ==
    \/ Call_calculate_sma
    \/ Call_calculate_rsi
    \/ Call_detect_support_resistance
    \/ Call_calculate_swap_output
    \/ Call_calculate_compound_interest
    \/ Call_find_optimal_swap_route
    \/ Call_calculate_hash
    \/ Call_generate_merkle_root
    \/ MerklePass
    \/ MerkleReturn
    \/ Call_generate_wallet_seed
    \/ Call_get_token_price
    \/ Call_monitor_gas_prices
    \/ ReCall
    \/ Reset

Spec == Init /\ [][Next]_vars

\* A call that has started runs on: the code is sequential, and nothing
\* blocks a pass of the loop or the return.
LiveSpec == Spec /\ WF_vars(MerklePass) /\ WF_vars(MerkleReturn)

Returned(o) == op = o /\ pc = "done"

Finished(o) == op = o /\ pc \in {"done", "raised"}

---------------------------------------------------------------------------
\* generate_merkle_root.

\* The digest of the reference reduction.
H(x) == <<[tag |-> "sha256", pre |-> x]>>

\* The next level of the reference reduction: adjacent pairs left to right,
\* a trailing unpaired hash paired with itself.
RefLevel(level) ==
    [k \in 1..((Len(level) + 1) \div 2) |->
        H(level[2 * k - 1] \o (IF 2 * k <= Len(level) THEN level[2 * k]
                                ELSE level[2 * k - 1]))]

RECURSIVE RefReduce(_)
RefReduce(level) == IF Len(level) = 1 THEN level[1] ELSE RefReduce(RefLevel(level))

RefRoot(txs) ==
    IF txs = <<>> THEN EmptyString
    ELSE RefReduce([i \in 1..Len(txs) |-> H(txs[i])])

\* C1: generate_merkle_root returns the result of the reference reduction
\* (level 0 the hash of each transaction in order, each next level the hash
\* of the adjacent pairs with a trailing hash paired with itself, down to one
\* hash); a list of one transaction returns its hash, not hashed again, and
\* the empty list returns the empty string.
C1_MerkleRootIsReference ==
    Returned("generate_merkle_root") =>
        /\ result = Ok(RefRoot(args.transactions))
        /\ (Len(args.transactions) = 1 => result.val = H(args.transactions[1]))
        /\ (args.transactions = <<>> => result.val = EmptyString)

\* A list of three transactions, whose last hash was paired with itself, has
\* been reduced.
C1_Witness ==
    /\ Returned("generate_merkle_root")
    /\ Len(args.transactions) = 3
    /\ result.val = H(H(H(args.transactions[1]) \o H(args.transactions[2]))
                      \o H(H(args.transactions[3]) \o H(args.transactions[3])))

\* The lists with the elements of s in another or the same order.
Reorderings(s) ==
    {[i \in 1..Len(s) |-> s[p[i]]] : p \in Permutations(1..Len(s))}

\* C2: generate_merkle_root is order-sensitive: the root of a list differs
\* from the root of every reordering of it that is a different sequence (the
\* hash being collision-free).
C2_OrderSensitive ==
    Returned("generate_merkle_root") =>
        \A s \in Reorderings(args.transactions) :
            s # args.transactions => generate_merkle_root(s) # result

\* A list of four transactions that has another order has been reduced.
C2_Witness ==
    /\ Returned("generate_merkle_root")
    /\ Len(args.transactions) = 4
    /\ \E s \in Reorderings(args.transactions) : s # args.transactions

\* One step of generate_merkle_root in its loop: a pass replaces a level of
\* n > 1 hashes by one of ceil(n/2), fewer and not none; a level of one hash
\* is returned; the caller's list stays as it was.
MerkleStepShrinks ==
    pc = "merkle_loop" =>
        /\ transactions' = transactions
        /\ transactions = args.transactions
        /\ Len(hashes) >= 1
        /\ IF Len(hashes) > 1
           THEN /\ pc' = "merkle_loop"
                /\ Len(hashes') = (Len(hashes) + 1) \div 2
                /\ Len(hashes') < Len(hashes)
                /\ Len(hashes') >= 1
           ELSE /\ pc' = "done"
                /\ result' = Ok(hashes[1])

\* C10: the loop of generate_merkle_root terminates for every non-empty
\* input: every pass replaces a level of n > 1 hashes by exactly ceil(n/2)
\* hashes, the loop reaches a level of one hash and returns it, and the
\* caller's transaction list is left unchanged.
C10_MerkleLoopTerminates ==
    /\ [][MerkleStepShrinks]_vars
    /\ (pc = "merkle_loop") ~> (pc = "done")

\* The loop is in its second pass on a list of three transactions.
C10_Witness ==
    /\ op = "generate_merkle_root"
    /\ pc = "merkle_loop"
    /\ Len(transactions) = 3
    /\ Len(hashes) = 2

---------------------------------------------------------------------------
\* TechnicalAnalysis.

\* The sum of the period observations that end at position k + period - 1
\* (positions counted from 1).
WindowSum(prices, k, period) == Sum(SubSeq(prices, k, k + period - 1))

\* calculate_sma has returned for a window size of one observation or more.
SmaReturned == Finished("calculate_sma") /\ args.period >= 1

\* The number of values the claim gives: none with fewer than period
\* observations, len(prices) - period + 1 otherwise.
SmaCount ==
    /\ result.kind = "ok"
    /\ Len(result.val) = IF Len(args.prices) < args.period THEN 0
                         ELSE Len(args.prices) - args.period + 1

\* C4 as the spec states it: every value is the mean of its window
\* (a value counts units of 10^-8).
C4_SmaIsExactMean ==
    SmaReturned =>
        /\ SmaCount
        /\ \A k \in 1..Len(result.val) :
               result.val[k] * args.period
                   = WindowSum(args.prices, k, args.period) * Pow10(8)

\* C4, amended: for a window size period >= 1, calculate_sma returns the
\* empty sequence when there are fewer than period observations and
\* otherwise len(prices) - period + 1 values, the k-th of which is the mean
\* of prices[k .. k+period-1] rounded to 8 decimal places: the multiple of
\* 10^-8 nearest to the mean, which is the mean itself only when the mean has
\* no more than 8 decimals.
C4_SmaIsRoundedMean ==
    SmaReturned =>
        /\ SmaCount
        /\ \A k \in 1..Len(result.val) :
               LET exact == WindowSum(args.prices, k, args.period) * Pow10(8)
               IN /\ 2 * Abs(result.val[k] * args.period - exact) <= args.period
                  /\ (exact % args.period = 0 =>
                          result.val[k] * args.period = exact)

\* A window of three observations was averaged, to a mean that has no finite
\* decimal expansion.
C4_Witness ==
    /\ Returned("calculate_sma")
    /\ args.period = 3
    /\ args.prices = <<0, 0, 1>>
    /\ result.val = <<33333333>>

StrictlyIncreasing(prices) ==
    \A i \in 1..(Len(prices) - 1) : prices[i] < prices[i + 1]

\* C5: for every price series of at least period+1 observations in which
\* each price is greater than the previous one, calculate_rsi returns a
\* non-empty sequence whose every value is 100 (a value counts units of
\* 10^-2); with fewer than period+1 observations it returns the empty
\* sequence.  The period is not 0: a period of 0 is no window, and what the
\* code does with it is the subject of C3.
C5_RsiOfRisingSeries ==
    Finished("calculate_rsi") /\ args.period # 0 =>
        /\ (Len(args.prices) >= args.period + 1 /\ StrictlyIncreasing(args.prices) =>
               /\ result.kind = "ok"
               /\ result.val # <<>>
               /\ \A k \in 1..Len(result.val) : result.val[k] = 100 * Pow10(2))
        /\ (Len(args.prices) < args.period + 1 => result = Ok(<<>>))

\* The RSI of a rising series of three prices over a period of two.
C5_Witness ==
    /\ Returned("calculate_rsi")
    /\ args.period = 2
    /\ args.prices = <<0, 1, 2>>
    /\ result.val = <<10000>>

\* The positions (from 1) the claim inspects: the indices i (from 0) with
\* window <= i < len(prices) - window.
Inspected(prices, window) ==
    {p \in 1..Len(prices) : window <= p - 1 /\ p - 1 < Len(prices) - window}

\* The other positions within window positions of p on each side.
Around(p, window) == {q \in (p - window)..(p + window) : q # p}

SupportValues(prices, window) ==
    {prices[p] : p \in {p \in Inspected(prices, window) :
                            \A q \in Around(p, window) : prices[p] <= prices[q]}}

ResistanceValues(prices, window) ==
    {prices[p] : p \in {p \in Inspected(prices, window) :
                            \A q \in Around(p, window) : prices[p] >= prices[q]}}

\* The list l holds every value of S exactly once.
ListsOnce(l, S) ==
    /\ {l[i] : i \in 1..Len(l)} = S
    /\ Len(l) = Cardinality(S)

\* C6: detect_support_resistance reports a price as support exactly when
\* some index i with window <= i < len(prices) - window has prices[i] <= every
\* other price within window positions on each side, and as resistance
\* exactly when some such index has prices[i] >= every such price; each list
\* holds every such value exactly once, and both lists are empty when
\* len(prices) < 2*window+1.  The window is not negative: what the code does
\* with a negative one is the subject of C3.
C6_SupportResistance ==
    Finished("detect_support_resistance") /\ args.window >= 0 =>
        /\ result.kind = "ok"
        /\ ListsOnce(result.val.support, SupportValues(args.prices, args.window))
        /\ ListsOnce(result.val.resistance,
                     ResistanceValues(args.prices, args.window))
        /\ (Len(args.prices) < 2 * args.window + 1 =>
               result.val.support = <<>> /\ result.val.resistance = <<>>)

\* A series whose only inspected point is a support, and no resistance.
C6_Witness ==
    /\ Returned("detect_support_resistance")
    /\ args.window = 1
    /\ args.prices = <<1, 0, 2>>
    /\ result.val = [support |-> <<0>>, resistance |-> <<>>]

---------------------------------------------------------------------------
\* Errors.

\* The pure math functions of the claim that the model holds.
PureMathFunctions ==
    {"calculate_sma", "calculate_rsi", "detect_support_resistance",
     "calculate_swap_output", "calculate_compound_interest", "calculate_hash"}

\* C3: no pure math function ever raises: for every input, invalid ones
\* included (a zero or negative period, zero or negative amounts, reserves or
\* compounding counts, empty sequences, unsupported algorithm names), the
\* function returns a value and signals no error.
C3_NoPureFunctionRaises ==
    op \in PureMathFunctions => pc # "raised" /\ result.kind # "raise"

---------------------------------------------------------------------------
\* calculate_swap_output.

\* The formula of the claim, each operation rounded to the nearest float.
SwapFormula(amount_in, reserve_in, reserve_out, fee_rate) ==
    FDiv(FMul(FMul(amount_in, FSub(RInt(1), fee_rate)), reserve_out),
         FAdd(reserve_in, FMul(amount_in, FSub(RInt(1), fee_rate))))

\* The denominator of the formula.
SwapDenominator(amount_in, reserve_in, fee_rate) ==
    FAdd(reserve_in, FMul(amount_in, FSub(RInt(1), fee_rate)))

\* The formula of the claim in exact arithmetic.
SwapExact(amount_in, reserve_in, reserve_out, fee_rate) ==
    RDiv(RMul(RMul(amount_in, RSub(RInt(1), fee_rate)), reserve_out),
         RAdd(reserve_in, RMul(amount_in, RSub(RInt(1), fee_rate))))

\* Positive reserves, amount_in >= 0 and fee_rate in [0, 1).
SwapInputsValid ==
    /\ RLess(RInt(0), args.reserve_in)
    /\ RLess(RInt(0), args.reserve_out)
    /\ RLeq(RInt(0), args.amount_in)
    /\ RLeq(RInt(0), args.fee_rate)
    /\ RLess(args.fee_rate, RInt(1))

\* The first half of the claim: 0 whenever a reserve is not positive, the
\* formula otherwise (which has no value where its denominator is 0: there
\* the division raises).
SwapReturnsFormula ==
    IF RLeq(args.reserve_in, RInt(0)) \/ RLeq(args.reserve_out, RInt(0))
    THEN result = Ok(RInt(0))
    ELSE IF SwapDenominator(args.amount_in, args.reserve_in, args.fee_rate)[1] = 0
    THEN result = Raise("ZeroDivisionError")
    ELSE result = Ok(SwapFormula(args.amount_in, args.reserve_in,
                                 args.reserve_out, args.fee_rate))

---------------------------------------------------------------------------
\* The network calls.

\* The usd field of the entry of the address in a well-formed body.
HasUsd(token_address, response) ==
    /\ ~response.exc
    /\ response.status = 200
    /\ response.body.t = "dict"
    /\ Lower(token_address) \in DOMAIN response.body.d
    /\ response.body.d[Lower(token_address)].t = "dict"
    /\ UsdKey \in DOMAIN response.body.d[Lower(token_address)].d

UsdOf(token_address, response) == response.body.d[Lower(token_address)].d[UsdKey]

GasKeys == {"gas_price_gwei", "fast", "standard", "safe", "timestamp"}

\* A body whose result field is a string of hexadecimal digits.
HasGasPrice(response) ==
    /\ ~response.exc
    /\ response.status = 200
    /\ response.body.t = "dict"
    /\ ResultKey \in DOMAIN response.body.d
    /\ response.body.d[ResultKey].t = "str"
    /\ ParseHex(response.body.d[ResultKey].s) >= 0

---------------------------------------------------------------------------
\* Repeated calls.

\* The functions whose result depends on more than their arguments: the
\* entropy source, the HTTP exchange, the clock.
ReadsEnvironment == {"generate_wallet_seed", "get_token_price", "monitor_gas_prices"}

---------------------------------------------------------------------------
\* find_optimal_swap_route.

\* The direct pools of the call.
RoutePools == _get_direct_pools(args.token_in, args.token_out)

\* What calculate_swap_output returns for the k-th direct pool.
PoolOutput(k) ==
    calculate_swap_output(args.amount_in, Fl(RInt(RoutePools[k].reserve_in)),
                          Fl(RInt(RoutePools[k].reserve_out)),
                          RoutePools[k].fee_rate).val

\* The maximum of 0 and the outputs of the direct pools.
BestOutput ==
    LET outs == {RInt(0)} \cup {PoolOutput(k) : k \in 1..Len(RoutePools)}
    IN CHOOSE x \in outs : \A y \in outs : RLeq(y, x)

\* The first pool that attains the maximum, if one does.
FirstBest ==
    {k \in 1..Len(RoutePools) :
        /\ PoolOutput(k) = BestOutput
        /\ \A j \in 1..(k - 1) : PoolOutput(j) # BestOutput}

\* The route returned is the one the claim describes.
RouteMatchesClaim ==
    /\ result.val.expected_output = BestOutput
    /\ ("pool_address" \in DOMAIN result.val <=> RLess(RInt(0), BestOutput))
    /\ \A k \in FirstBest :
           /\ result.val.price_impact
                  = _calculate_price_impact(args.amount_in, RoutePools[k].reserve_in)
           /\ (RLess(RInt(0), BestOutput) =>
                   result.val.pool_address = RoutePools[k].address)
    /\ result.val.route = <<args.token_in, args.token_out>>
    /\ result.val.gas_estimate = 150000

\* C11: find_optimal_swap_route returns expected_output equal to the maximum
\* of 0 and the largest calculate_swap_output over the direct pools;
\* pool_address and price_impact are those of the first pool attaining that
\* maximum, and pool_address is present only when expected_output > 0; the
\* route field is always [token_in, token_out] with gas_estimate 150000,
\* whatever the multi-hop routes are.
C11_RouteIsBestDirectPool ==
    Finished("find_optimal_swap_route") =>
        /\ pc = "done"
        /\ result.kind = "ok"
        /\ RouteMatchesClaim

\* Where the call returns, the route is the one the claim describes: the
\* claim fails where the call raises, and nowhere else.
RouteAsClaimedWhereReturned ==
    Returned("find_optimal_swap_route") => RouteMatchesClaim

====
